---- MODULE Spec2Model ----
(***************************************************************************)
(* Model of src/app/page.tsx: the price-series pipeline of the Income      *)
(* Flywheel page (fetch, proxy blend, monthly returns, weighted portfolio  *)
(* returns, value reconstruction, 5-year forecast) and the React state     *)
(* machine that drives it (allocation edits, overlapping recomputations).  *)
(*                                                                         *)
(* A JavaScript number is modelled as an exact extended rational: a record *)
(* [n, d] in lowest terms with d > 0, or one of the IEEE specials          *)
(* [n |-> 1, d |-> 0] (+Infinity), [n |-> -1, d |-> 0] (-Infinity) and     *)
(* [n |-> 0, d |-> 0] (NaN).  Rounding of doubles and the sign of zero are *)
(* not modelled.  A Math.pow whose result is irrational, and every number  *)
(* computed from it, is kept as a symbolic term [op, l, r].                *)
(***************************************************************************)
EXTENDS Integers, Sequences, FiniteSets, TLC

VARIABLES allocs, loading, error, portfolioSeries, labels, annualIncome,
          runs, mounted, now, args, ret

vars == <<allocs, loading, error, portfolioSeries, labels, annualIncome,
          runs, mounted, now, args, ret>>

pageVars == <<allocs, loading, error, portfolioSeries, labels, annualIncome,
              runs, mounted>>

Null == "null"

-----------------------------------------------------------------------------
(* JavaScript numbers *)

Abs(i) == IF i < 0 THEN -i ELSE i

Sign(i) == IF i < 0 THEN -1 ELSE IF i > 0 THEN 1 ELSE 0

RECURSIVE GCD(_, _)
GCD(a, b) == IF b = 0 THEN a ELSE GCD(b, a % b)

\* the number n/d: lowest terms, positive denominator; x/0 is +-Infinity or NaN
Num(n, d) ==
    IF d = 0 THEN [n |-> Sign(n), d |-> 0]
    ELSE LET g == GCD(Abs(n), Abs(d))
         IN  [n |-> Sign(d) * (n \div g), d |-> Abs(d) \div g]

Z(i) == [n |-> i, d |-> 1]

NaN == [n |-> 0, d |-> 0]

Infinity == [n |-> 1, d |-> 0]

IsNumber(x) == DOMAIN x = {"n", "d"}

IsNaN(x) == x = NaN

Term(o, x, y) == [op |-> o, l |-> x, r |-> y]

\* x * y
Mul(x, y) ==
    IF ~IsNumber(x) \/ ~IsNumber(y) THEN Term("mul", x, y)
    ELSE Num(x.n * y.n, x.d * y.d)

\* x + y
Add(x, y) ==
    IF ~IsNumber(x) \/ ~IsNumber(y) THEN Term("add", x, y)
    ELSE IF IsNaN(x) \/ IsNaN(y) THEN NaN
    ELSE IF x.d = 0 THEN (IF y.d = 0 /\ y.n # x.n THEN NaN ELSE x)
    ELSE IF y.d = 0 THEN y
    ELSE Num(x.n * y.d + y.n * x.d, x.d * y.d)

Neg(x) == IF IsNumber(x) THEN [n |-> -x.n, d |-> x.d] ELSE Term("neg", x, x)

\* x - y
Sub(x, y) ==
    IF ~IsNumber(x) \/ ~IsNumber(y) THEN Term("sub", x, y) ELSE Add(x, Neg(y))

\* x / y
Div(x, y) ==
    IF ~IsNumber(x) \/ ~IsNumber(y) THEN Term("div", x, y)
    ELSE Mul(x, Num(y.d, y.n))

RECURSIVE IntPow(_, _, _)
\* a^k, cut off above cap
IntPow(a, k, cap) ==
    IF k = 0 THEN 1
    ELSE LET p == IntPow(a, k - 1, cap)
         IN  IF p > cap THEN p ELSE a * p

\* the integers whose k-th power is i
IntRoots(i, k) == {a \in 0..i : IntPow(a, k, i) = i}

\* Math.pow(x, 1/k)
Root(x, k) ==
    IF ~IsNumber(x) THEN Term("pow", x, Num(1, k))
    ELSE IF IsNaN(x) \/ x.n < 0 THEN NaN
    ELSE IF x.d = 0 THEN Infinity
    ELSE IF IntRoots(x.n, k) # {} /\ IntRoots(x.d, k) # {}
         THEN Num(CHOOSE a \in IntRoots(x.n, k) : TRUE,
                  CHOOSE b \in IntRoots(x.d, k) : TRUE)
    ELSE Term("pow", x, Num(1, k))

RECURSIVE SumSeq(_)
SumSeq(s) == IF s = <<>> THEN Z(0) ELSE Add(SumSeq(SubSeq(s, 1, Len(s) - 1)), s[Len(s)])

-----------------------------------------------------------------------------
(* JavaScript Date, as <<year, month 0..11, day of month>> in local time *)

IsLeap(y) == (y % 4 = 0 /\ y % 100 # 0) \/ y % 400 = 0

DaysInMonth(y, m) ==
    IF m = 1 THEN (IF IsLeap(y) THEN 29 ELSE 28)
    ELSE IF m \in {3, 5, 8, 10} THEN 30 ELSE 31

\* Date.prototype.setMonth(month): the day of month is kept, and a day past the
\* end of the target month runs over into the following month
SetMonth(date, month) ==
    LET y == date[1] + (month \div 12)
        m == month % 12
        d == date[3]
    IN  IF d <= DaysInMonth(y, m) THEN <<y, m, d>>
        ELSE <<y + ((m + 1) \div 12), (m + 1) % 12, d - DaysInMonth(y, m)>>

GetMonth(date) == date[2]

\* months since year 0, to compare the calendar months of two dates
MonthIndex(date) == date[1] * 12 + date[2]

-----------------------------------------------------------------------------
(* The pipeline's functions *)

START_PORTFOLIO_VALUE == 2500000

\* a JSON null in the adjclose array
JsonNull == [null |-> TRUE]

\* a rejected promise / a thrown exception, and a returned value
Thrown(msg) == [threw |-> TRUE, message |-> msg]

Returned(v) == [threw |-> FALSE, value |-> v]

Point(d, v) == [date |-> d, value |-> v]

RECURSIVE SelectPoints(_, _, _)
\* the loop of fetchYahooMonthlyAdjClose over ts[0..i-1]: an index whose adjclose
\* is null or absent is skipped
SelectPoints(ts, adj, i) ==
    IF i = 0 THEN <<>>
    ELSE LET rest == SelectPoints(ts, adj, i - 1)
         IN  IF i > Len(adj) \/ adj[i] = JsonNull THEN rest
             ELSE Append(rest, Point(ts[i], adj[i]))

\* res is the HTTP response: [ok, json, ts, adj]; json is FALSE for a body that
\* does not parse, ts and adj are empty when the payload lacks them
fetchYahooMonthlyAdjClose(symbol, res) ==
    IF ~res.ok THEN Thrown("Failed to fetch")
    ELSE IF ~res.json THEN Thrown("Unexpected token")
    ELSE Returned(SelectSeq(SelectPoints(res.ts, res.adj, Len(res.ts)),
                            LAMBDA p : ~IsNaN(p.value)))

\* blendWithProxy with the proxy filter inclusive of the primary's first date
blendWithProxyInclusive(primary, proxy) ==
    IF Len(primary) = 0 THEN proxy
    ELSE LET proxyBefore == SelectSeq(proxy, LAMBDA p : p.date <= primary[1].date)
         IN  IF Len(proxyBefore) = 0 THEN primary
             ELSE LET scale == Div(primary[1].value, proxyBefore[Len(proxyBefore)].value)
                  IN  [k \in 1..Len(proxyBefore) |->
                          Point(proxyBefore[k].date, Mul(proxyBefore[k].value, scale))]
                      \o primary

\* blendWithProxy scaling by the first pre-primary proxy value instead of the last
blendWithProxyFirstScale(primary, proxy) ==
    IF Len(primary) = 0 THEN proxy
    ELSE LET proxyBefore == SelectSeq(proxy, LAMBDA p : p.date < primary[1].date)
         IN  IF Len(proxyBefore) = 0 THEN primary
             ELSE LET scale == Div(primary[1].value, proxyBefore[1].value)
                  IN  [k \in 1..Len(proxyBefore) |->
                          Point(proxyBefore[k].date, Mul(proxyBefore[k].value, scale))]
                      \o primary

blendWithProxy(primary, proxy) ==
    IF Len(primary) = 0 THEN proxy
    ELSE LET primaryStartDate == primary[1].date
             proxyBefore == SelectSeq(proxy, LAMBDA p : p.date < primaryStartDate)
         IN  IF Len(proxyBefore) = 0 THEN primary
             ELSE LET firstPrimary == primary[1].value
                      lastProxyBefore == proxyBefore[Len(proxyBefore)].value
                      scale == Div(firstPrimary, lastProxyBefore)
                      scaledProxy == [k \in 1..Len(proxyBefore) |->
                                         Point(proxyBefore[k].date,
                                               Mul(proxyBefore[k].value, scale))]
                  IN  scaledProxy \o primary

\* toMonthlyReturns giving the price ratio, without the - 1
toMonthlyReturnsRatio(series) ==
    [k \in 1..(Len(series) - 1) |-> Div(series[k + 1].value, series[k].value)]

toMonthlyReturns(series) ==
    [k \in 1..(Len(series) - 1) |->
        Sub(Div(series[k + 1].value, series[k].value), Z(1))]

Min(S) == CHOOSE x \in S : \A y \in S : x <= y

\* returnsBySymbol[s]?.length ?? 0
LengthOrZero(returnsBySymbol, s) ==
    IF s \in DOMAIN returnsBySymbol THEN Len(returnsBySymbol[s]) ELSE 0

RECURSIVE WeightedSum(_, _, _, _)
\* the inner loop of weightedPortfolioReturns over allocations 1..j at period i
WeightedSum(returnsBySymbol, allocations, i, j) ==
    IF j = 0 THEN Z(0)
    ELSE Add(WeightedSum(returnsBySymbol, allocations, i, j - 1),
             Mul(returnsBySymbol[allocations[j].symbol][i],
                 Div(allocations[j].weightPct, Z(100))))

\* Math.min() of no arguments is Infinity: the loop over an empty allocation list
\* never ends
Diverges == [diverges |-> TRUE]

\* weightedPortfolioReturns with the weights normalised to sum to 1
weightedPortfolioReturnsNormalised(returnsBySymbol, allocations) ==
    LET length == Min({LengthOrZero(returnsBySymbol, allocations[j].symbol) :
                          j \in 1..Len(allocations)})
        total == SumSeq([j \in 1..Len(allocations) |-> allocations[j].weightPct])
    IN  [i \in 1..length |->
            SumSeq([j \in 1..Len(allocations) |->
                       Mul(returnsBySymbol[allocations[j].symbol][i],
                           Div(allocations[j].weightPct, total))])]

weightedPortfolioReturns(returnsBySymbol, allocations) ==
    IF Len(allocations) = 0 THEN Diverges
    ELSE LET length == Min({LengthOrZero(returnsBySymbol, allocations[j].symbol) :
                               j \in 1..Len(allocations)})
         IN  [i \in 1..length |->
                 WeightedSum(returnsBySymbol, allocations, i, Len(allocations))]

RECURSIVE Compound(_, _, _)
\* v after the first i iterations of v *= 1 + monthlyReturns[i]
Compound(startValue, monthlyReturns, i) ==
    IF i = 0 THEN startValue
    ELSE Mul(Compound(startValue, monthlyReturns, i - 1),
             Add(Z(1), monthlyReturns[i]))

\* today is the value of new Date()
seriesFromReturns(startValue, monthlyReturns, today) ==
    LET startDate == SetMonth(today, GetMonth(today) - Len(monthlyReturns))
    IN  [i \in 1..Len(monthlyReturns) |->
            Point(SetMonth(startDate, GetMonth(startDate) + i),
                  Compound(startValue, monthlyReturns, i))]

RECURSIVE Grow(_, _, _)
\* v after i iterations of v *= 1 + monthly: the first half of the iterations,
\* then the rest from their result (the same products in the same order)
Grow(v, monthly, i) ==
    IF i = 0 THEN v
    ELSE IF i = 1 THEN Mul(v, Add(Z(1), monthly))
    ELSE CHOOSE r \in {Grow(h, monthly, i - (i \div 2)) :
                          h \in {Grow(v, monthly, i \div 2)}} : TRUE

\* forecastSeries asking for more than 60 points
forecastSeriesStrict(series, today) ==
    IF Len(series) <= 60 THEN <<>>
    ELSE LET first == series[Len(series) - 60 + 1].value
             last == series[Len(series)].value
             monthly == Sub(Root(Add(Z(1), Sub(Root(Div(last, first), 5), Z(1))), 12), Z(1))
         IN  [i \in 1..60 |->
                 Point(SetMonth(today, GetMonth(today) + i), Grow(last, monthly, i))]

forecastSeries(series, today) ==
    IF Len(series) < 60 THEN <<>>
    ELSE LET first == series[Len(series) - 60 + 1].value
             last == series[Len(series)].value
             years == 5
             cagr == Sub(Root(Div(last, first), 5), Z(1))
             monthly == Sub(Root(Add(Z(1), cagr), 12), Z(1))
         IN  [i \in 1..(years * 12) |->
                 Point(SetMonth(today, GetMonth(today) + i), Grow(last, monthly, i))]

\* allocs.reduce((s, a) => s + (a.weightPct / 100) * a.estYieldPct, 0)
estYield(allocations) ==
    SumSeq([j \in 1..Len(allocations) |->
               Mul(Div(allocations[j].weightPct, Z(100)), allocations[j].estYieldPct)])

-----------------------------------------------------------------------------
(* The page: its state, the effect that recomputes, the edit handlers *)

NoProxy == ""

Alloc(s, w, p, y) == [symbol |-> s, weightPct |-> w, proxySymbol |-> p, estYieldPct |-> y]

DEFAULT_PORTFOLIO ==
    << Alloc("SCHD", Z(20), NoProxy, Num(7, 2)),
       Alloc("VTI",  Z(10), NoProxy, Num(3, 2)),
       Alloc("VIG",  Z(10), NoProxy, Z(2)),
       Alloc("JEPI", Z(15), "SPY",   Z(8)),
       Alloc("JEPQ", Z(10), "QQQ",   Z(10)),
       Alloc("VNQ",  Z(10), NoProxy, Z(4)),
       Alloc("PFF",  Z(10), NoProxy, Z(6)),
       Alloc("LQD",  Z(10), NoProxy, Num(9, 2)),
       Alloc("TLT",  Z(5),  NoProxy, Num(9, 2)) >>

\* the rows of the table the model keeps
ModelSymbols == {"JEPI"}

InitialAllocs == SelectSeq(DEFAULT_PORTFOLIO, LAMBDA a : a.symbol \in ModelSymbols)

\* the edits a user makes to a row: a weight, a yield
EditWeights == {Z(0)}

EditYields == {Z(4)}

\* how many edits a behaviour makes
MaxEdits == 1

\* the days on which the page is open
PageDates == {<<2024, 4, 15>>}

Range(f) == {f[x] : x \in DOMAIN f}

\* Array.from(new Set([...symbols, ...proxySymbols]))
SymbolSet(allocations) ==
    {a.symbol : a \in Range(allocations)}
        \cup {a.proxySymbol : a \in {b \in Range(allocations) : b.proxySymbol # NoProxy}}

NotOk == [ok |-> FALSE, json |-> FALSE, ts |-> <<>>, adj |-> <<>>]

Malformed == [ok |-> TRUE, json |-> FALSE, ts |-> <<>>, adj |-> <<>>]

Payload(ts, adj) == [ok |-> TRUE, json |-> TRUE, ts |-> ts, adj |-> adj]

\* what the price source may answer for a symbol
Responses(s) ==
    IF s = "SCHD" THEN {NotOk, Payload(<<1, 2, 3, 4>>, <<Z(2), Z(3), JsonNull, Z(6)>>)}
    ELSE IF s = "JEPI" THEN {Malformed, Payload(<<3, 4>>, <<Z(4), Z(2)>>)}
    ELSE {NotOk, Payload(<<1, 2, 3, 4>>, <<Z(1), Z(2), Z(3), Z(3)>>)}

\* SymbolTask without its try/catch: the fetch's rejection is the task's
SymbolTaskRethrows(s, res) == fetchYahooMonthlyAdjClose(s, res)

\* the async callback of symbolSet.map: a failed fetch becomes an empty series
SymbolTask(s, res) ==
    LET data == fetchYahooMonthlyAdjClose(s, res)
    IN  IF data.threw THEN Returned(<<>>) ELSE Returned(data.value)

\* seriesMap[s] ?? []
SeriesOrEmpty(seriesMap, s) == IF s \in DOMAIN seriesMap THEN seriesMap[s] ELSE <<>>

\* fullSeries[a.symbol] for the last allocation of that symbol
FullSeries(seriesMap, allocations, s) ==
    LET j == CHOOSE k \in 1..Len(allocations) :
                 /\ allocations[k].symbol = s
                 /\ \A m \in (k + 1)..Len(allocations) : allocations[m].symbol # s
        a == allocations[j]
        prim == SeriesOrEmpty(seriesMap, a.symbol)
        proxy == IF a.proxySymbol # NoProxy THEN SeriesOrEmpty(seriesMap, a.proxySymbol)
                 ELSE <<>>
    IN  IF a.proxySymbol # NoProxy THEN blendWithProxy(prim, proxy) ELSE prim

\* the body of run after the fetches: portSeries and income
RunBody(allocations, yield, seriesMap, today) ==
    LET returnsBySymbol ==
            [s \in {a.symbol : a \in Range(allocations)} |->
                toMonthlyReturns(FullSeries(seriesMap, allocations, s))]
        portMonthly == weightedPortfolioReturns(returnsBySymbol, allocations)
    IN  [portSeries |-> seriesFromReturns(Z(START_PORTFOLIO_VALUE), portMonthly, today),
         income |-> Mul(Div(yield, Z(100)), Z(START_PORTFOLIO_VALUE))]

\* format(p.date, "MMM yyyy")
Format(date) == <<date[2], date[1]>>

\* a run of the effect: the allocs and estYield it closed over, the responses
\* received so far, the entries its tasks resolved to
NewRun(allocations) ==
    [allocs |-> allocations, estYield |-> estYield(allocations), pc |-> "fetching",
     pending |-> SymbolSet(allocations),
     responses |-> [s \in {} |-> NotOk], entries |-> [s \in {} |-> <<>>]]

Extend(f, k, v) == [x \in DOMAIN f \cup {k} |-> IF x = k THEN v ELSE f[x]]

\* useEffect(..., [allocs, estYield]): run() up to its first await
StartRun(allocations) ==
    /\ loading' = TRUE
    /\ error' = Null
    /\ runs' = Append(runs, NewRun(allocations))

PageInit ==
    /\ allocs = InitialAllocs
    /\ loading = FALSE
    /\ error = Null
    /\ portfolioSeries = <<>>
    /\ labels = <<>>
    /\ annualIncome = Z(0)
    /\ runs = <<>>
    /\ mounted = FALSE

Init ==
    /\ PageInit
    /\ now \in PageDates
    /\ args = <<>>
    /\ ret = <<>>

\* the first render: the effect runs with the default portfolio
Mount ==
    /\ ~mounted
    /\ mounted' = TRUE
    /\ StartRun(allocs)
    /\ UNCHANGED <<allocs, portfolioSeries, labels, annualIncome, now, args, ret>>

Edited == Len(runs) - 1

\* onChange of the weight input of row idx
EditWeight(idx, v) ==
    /\ mounted
    /\ Edited < MaxEdits
    /\ allocs' = [allocs EXCEPT ![idx].weightPct = v]
    /\ StartRun(allocs')
    /\ UNCHANGED <<portfolioSeries, labels, annualIncome, mounted, now, args, ret>>

\* onChange of the yield input of row idx
EditYield(idx, v) ==
    /\ mounted
    /\ Edited < MaxEdits
    /\ allocs' = [allocs EXCEPT ![idx].estYieldPct = v]
    /\ StartRun(allocs')
    /\ UNCHANGED <<portfolioSeries, labels, annualIncome, mounted, now, args, ret>>

\* the fetch of symbol s of run r settles with response res; when it is the last
\* one, Promise.all resolves and the rest of run executes
FetchSettles(r, s, res) ==
    /\ runs[r].pc = "fetching"
    /\ s \in runs[r].pending
    /\ LET task == SymbolTask(s, res)
           received == [runs[r] EXCEPT !.pending = @ \ {s},
                                       !.responses = Extend(@, s, res)]
       IN  IF task.threw
           THEN \* Promise.all rejects: catch, finally
                /\ runs' = [runs EXCEPT ![r] = [received EXCEPT !.pc = "failed"]]
                /\ error' = task.message
                /\ loading' = FALSE
                /\ UNCHANGED <<portfolioSeries, labels, annualIncome>>
           ELSE LET settled == [received EXCEPT !.entries = Extend(@, s, task.value)]
                IN  IF settled.pending # {}
                    THEN /\ runs' = [runs EXCEPT ![r] = settled]
                         /\ UNCHANGED <<loading, error, portfolioSeries, labels,
                                        annualIncome>>
                    ELSE LET out == RunBody(settled.allocs, settled.estYield,
                                            settled.entries, now)
                         IN  /\ runs' = [runs EXCEPT ![r] = [settled EXCEPT !.pc = "done"]]
                             /\ portfolioSeries' = out.portSeries
                             /\ labels' = [i \in 1..Len(out.portSeries) |->
                                              Format(out.portSeries[i].date)]
                             /\ annualIncome' = out.income
                             /\ loading' = FALSE
                             /\ UNCHANGED error
    /\ UNCHANGED <<allocs, mounted, now, args, ret>>

Next ==
    \/ Mount
    \/ \E idx \in 1..Len(allocs), v \in EditWeights : EditWeight(idx, v)
    \/ \E idx \in 1..Len(allocs), v \in EditYields : EditYield(idx, v)
    \/ \E r \in 1..Len(runs) : \E s \in runs[r].pending : \E res \in Responses(s) :
           FetchSettles(r, s, res)

Spec == Init /\ [][Next]_vars

-----------------------------------------------------------------------------
(* Claims about the page *)

\* a response on which the fetch fails: a non-success status or a body that
\* does not parse
Failed(res) == ~res.ok \/ ~res.json

\* the series a symbol must end up with, given the response to its fetch
ExpectedEntry(s, res) ==
    IF Failed(res) THEN <<>> ELSE fetchYahooMonthlyAdjClose(s, res).value

ExpectedMap(run) == [s \in DOMAIN run.responses |-> ExpectedEntry(s, run.responses[s])]

InFlight(r) == runs[r].pc = "fetching"

C1_Step ==
    /\ error' = Null
    /\ \A r \in 1..Len(runs') :
          /\ runs'[r].pc \in {"fetching", "done"}
          /\ runs'[r].entries = ExpectedMap(runs'[r])
          /\ runs'[r].pending = {} => runs'[r].pc = "done"
    /\ \A r \in 1..Len(runs) :
          InFlight(r) /\ runs'[r].pc = "done" =>
              /\ portfolioSeries' =
                     RunBody(runs[r].allocs, estYield(runs[r].allocs),
                             ExpectedMap(runs'[r]), now).portSeries
              /\ error' = Null

\* C1: whatever subset of a run's fetches fails, the run completes: a failed
\* symbol's series is the empty sequence, every other symbol keeps the series
\* its fetch returned, the backtest series computed from them is stored, and
\* the error stays null.
C1_FetchFailureIsolated == [][C1_Step]_vars

C1_Witness ==
    \E r \in 1..Len(runs) :
        /\ runs[r].pc = "done"
        /\ \E s, u \in DOMAIN runs[r].responses :
              /\ Failed(runs[r].responses[s])
              /\ ~Failed(runs[r].responses[u])
              /\ runs[r].entries[s] = <<>>
              /\ runs[r].entries[u] # <<>>
        /\ Len(portfolioSeries) > 0
        /\ error = Null

\* sum over allocations of weightFraction x estimatedYieldFraction, times the
\* start value
Income(allocations) ==
    Mul(SumSeq([j \in 1..Len(allocations) |->
                   Mul(Div(allocations[j].weightPct, Z(100)),
                       Div(allocations[j].estYieldPct, Z(100)))]),
        Z(START_PORTFOLIO_VALUE))

AllSettled == mounted /\ \A r \in 1..Len(runs) : ~InFlight(r)

\* C2: every change of the allocation list starts a recomputation from that
\* list, and once every recomputation has settled the stored backtest series
\* and income are those computed from the latest allocation list.
C2_LatestAllocationsWin ==
    /\ mounted => runs[Len(runs)].allocs = allocs
    /\ AllSettled =>
          /\ annualIncome = Income(allocs)
          /\ portfolioSeries =
                 RunBody(allocs, estYield(allocs), runs[Len(runs)].entries,
                         now).portSeries

\* C10: loading is true whenever some recomputation is in flight, and false
\* once all of them have settled.
C10_LoadingTracksRuns ==
    /\ (\E r \in 1..Len(runs) : InFlight(r)) => loading
    /\ AllSettled => ~loading

-----------------------------------------------------------------------------
(* The pipeline's functions called on their own: args is the call's arguments, *)
(* ret what it returned                                                        *)

NotCalled == [called |-> FALSE]

Result(v) == [called |-> TRUE, value |-> v]

\* the date that is "now" when the clock is not what a call is about
FixedDate == <<2024, 4, 15>>

\* the k-th smallest element of a set of integers
Kth(D, k) == CHOOSE d \in D : Cardinality({e \in D : e < d}) = k - 1

\* the series, strictly ascending in date, with a point at each date of D
SeriesOn(D, f) == [k \in 1..Cardinality(D) |-> Point(Kth(D, k), f[Kth(D, k)])]

\* dates (months) a fetched point may carry
MaxDate == 3

\* prices of fetched points
PriceValues == {Z(1), Z(2), Z(3)}

AscendingSeries ==
    UNION {{SeriesOn(D, f) : f \in [D -> PriceValues]} : D \in SUBSET (1..MaxDate)}

InitBlend ==
    /\ PageInit
    /\ now = FixedDate
    /\ args \in [primary : AscendingSeries, proxy : AscendingSeries]
    /\ ret = NotCalled

CallBlendWithProxy ==
    /\ ret = NotCalled
    /\ ret' = Result(blendWithProxy(args.primary, args.proxy))
    /\ UNCHANGED <<pageVars, now, args>>

NextBlend == CallBlendWithProxy

SpecBlend == InitBlend /\ [][NextBlend]_vars

\* the proxy points strictly before the primary's first date
ProxyBefore == SelectSeq(args.proxy, LAMBDA p : p.date < args.primary[1].date)

StrictlyAscending(series) ==
    \A i, j \in 1..Len(series) : i < j => series[i].date < series[j].date

\* C5: for strictly ascending inputs the blend is strictly ascending in date
\* (so without duplicate dates), holds no proxy point dated at or after the
\* primary's first date, and ends with the primary's points unchanged.
C5_BlendAscending ==
    ret.called =>
        /\ StrictlyAscending(ret.value)
        /\ Len(args.primary) > 0 =>
              /\ Len(ret.value) = Len(ProxyBefore) + Len(args.primary)
              /\ SubSeq(ret.value, Len(ProxyBefore) + 1, Len(ret.value)) = args.primary
              /\ \A k \in 1..Len(ProxyBefore) :
                    ret.value[k].date < args.primary[1].date

C5_Witness ==
    /\ ret.called
    /\ Len(args.primary) > 1
    /\ Len(ProxyBefore) > 0
    /\ \E k \in 1..Len(args.proxy) : args.proxy[k].date = args.primary[1].date

\* C6: with a non-empty primary and a non-empty pre-primary proxy part, every
\* pre-primary proxy value is multiplied by primary[0].value / (last pre-primary
\* proxy value): the last scaled value is primary[0].value and the ratios among
\* the proxy values are kept; an empty primary gives the proxy, and no proxy
\* point before the primary gives the primary.
C6_BlendScale ==
    ret.called =>
        IF Len(args.primary) = 0 THEN ret.value = args.proxy
        ELSE IF Len(ProxyBefore) = 0 THEN ret.value = args.primary
        ELSE LET n == Len(ProxyBefore)
                 factor == Div(args.primary[1].value, ProxyBefore[n].value)
             IN  /\ \A k \in 1..n : ret.value[k].value = Mul(ProxyBefore[k].value, factor)
                 /\ ret.value[n].value = args.primary[1].value
                 /\ \A i, j \in 1..n :
                       Mul(ret.value[i].value, ProxyBefore[j].value)
                           = Mul(ret.value[j].value, ProxyBefore[i].value)

C6_Witness ==
    /\ ret.called
    /\ Len(args.primary) > 0
    /\ Len(ProxyBefore) > 1
    /\ ProxyBefore[1].value # ProxyBefore[2].value
    /\ ProxyBefore[2].value # args.primary[1].value
    /\ ret.value[1].value = Mul(ProxyBefore[1].value,
                                Div(args.primary[1].value, ProxyBefore[2].value))

-----------------------------------------------------------------------------
(* weightedPortfolioReturns on its own *)

\* the longest return sequence, and the longest allocation list
MaxReturns == 2

MaxAllocs == 2

AggSymbols == {"SCHD", "VTI"}

ReturnValues == {Num(-1, 2), Z(1)}

WeightValues == {Z(0), Z(50), Z(100)}

SeqsUpTo(S, n) == UNION {[1..k -> S] : k \in 0..n}

\* the maps from some of the symbols to a return sequence
ReturnMaps ==
    UNION {[D -> SeqsUpTo(ReturnValues, MaxReturns)] : D \in SUBSET AggSymbols}

AllocationLists ==
    UNION {[1..k -> {Alloc(s, w, NoProxy, Z(0)) : s \in AggSymbols, w \in WeightValues}] :
              k \in 1..MaxAllocs}

InitAggregate ==
    /\ PageInit
    /\ now = FixedDate
    /\ args \in [returnsBySymbol : ReturnMaps, allocations : AllocationLists]
    /\ ret = NotCalled

CallWeightedPortfolioReturns ==
    /\ ret = NotCalled
    /\ ret' = Result(weightedPortfolioReturns(args.returnsBySymbol, args.allocations))
    /\ UNCHANGED <<pageVars, now, args>>

NextAggregate == CallWeightedPortfolioReturns

SpecAggregate == InitAggregate /\ [][NextAggregate]_vars

\* the length of allocation j's return sequence, 0 when its symbol is not in the map
HistoryLength(j) ==
    IF args.allocations[j].symbol \in DOMAIN args.returnsBySymbol
    THEN Len(args.returnsBySymbol[args.allocations[j].symbol])
    ELSE 0

\* C3: the result's length is the least history length over the allocations (0
\* for a symbol missing from the map, which empties the result); element i is
\* the sum over the allocations of returns[symbol][i] x weightPct / 100, the
\* weights taken as they are; all-zero weights give zeros.
C3_WeightedReturns ==
    ret.called =>
        LET A == args.allocations
            J == 1..Len(A)
        IN  /\ DOMAIN ret.value = 1..Len(ret.value)
            /\ \E j \in J : Len(ret.value) = HistoryLength(j)
            /\ \A j \in J : Len(ret.value) <= HistoryLength(j)
            /\ (\E j \in J : A[j].symbol \notin DOMAIN args.returnsBySymbol)
                   => ret.value = <<>>
            /\ \A i \in 1..Len(ret.value) :
                  /\ ret.value[i] =
                         SumSeq([j \in J |->
                                    Div(Mul(args.returnsBySymbol[A[j].symbol][i],
                                            A[j].weightPct), Z(100))])
                  /\ (\A j \in J : A[j].weightPct = Z(0)) => ret.value[i] = Z(0)

C3_Witness ==
    /\ ret.called
    /\ Len(args.allocations) = 2
    /\ args.allocations[1].symbol # args.allocations[2].symbol
    /\ args.allocations[1].weightPct = Z(50)
    /\ args.allocations[2].weightPct = Z(100)
    /\ HistoryLength(1) = 2
    /\ HistoryLength(2) = 1
    /\ Len(ret.value) = 1
    /\ ret.value[1] # Z(0)

-----------------------------------------------------------------------------
(* toMonthlyReturns and seriesFromReturns, one after the other *)

\* the longest series converted
MaxPoints == 3

SeriesValues == {Z(-1), Z(0), Z(1), Z(2)}

ValueSeries ==
    UNION {{[i \in 1..k |-> Point(i, f[i])] : f \in [1..k -> SeriesValues]} :
              k \in 0..MaxPoints}

\* the days on which seriesFromReturns reads the clock
ValidDate(date) == date[3] <= DaysInMonth(date[1], date[2])

ClockDates ==
    {date \in {<<y, m, d>> : y \in {2023, 2024}, m \in 0..11, d \in {15, 29, 30, 31}} :
        ValidDate(date)}

InitReturns ==
    /\ PageInit
    /\ now \in ClockDates
    /\ args \in [series : ValueSeries]
    /\ ret = NotCalled

CallToMonthlyReturns ==
    /\ ret = NotCalled
    /\ ret' = [called |-> TRUE, stage |-> "returns",
               rets |-> toMonthlyReturns(args.series)]
    /\ UNCHANGED <<pageVars, now, args>>

\* seriesFromReturns(series[0].value, toMonthlyReturns(series))
CallSeriesFromReturns ==
    /\ ret.called
    /\ ret.stage = "returns"
    /\ Len(args.series) > 0
    /\ ret' = [called |-> TRUE, stage |-> "series", rets |-> ret.rets,
               value |-> seriesFromReturns(args.series[1].value, ret.rets, now)]
    /\ UNCHANGED <<pageVars, now, args>>

NextReturns == CallToMonthlyReturns \/ CallSeriesFromReturns

SpecReturns == InitReturns /\ [][NextReturns]_vars

Reconstructed == ret.called /\ ret.stage = "series"

\* C4: seriesFromReturns returns one point per return, dated in consecutive
\* calendar months, none skipped or repeated, the last one in the month of now.
C4_ConsecutiveMonths ==
    Reconstructed =>
        /\ Len(ret.value) = Len(ret.rets)
        /\ \A i \in 1..Len(ret.value) :
              MonthIndex(ret.value[i].date) = MonthIndex(now) - Len(ret.rets) + i

AllPositive(series) == \A k \in 1..Len(series) : series[k].value.n > 0 /\ series[k].value.d > 0

\* C8: toMonthlyReturns gives n returns for n+1 points and none for fewer than
\* two points; for strictly positive values v[0..n], seriesFromReturns(v[0],
\* toMonthlyReturns(series)) has the n values v[1..n] in order.
C8_RoundTrip ==
    ret.called =>
        /\ Len(ret.rets) = (IF Len(args.series) < 2 THEN 0 ELSE Len(args.series) - 1)
        /\ (Reconstructed /\ AllPositive(args.series)) =>
              /\ Len(ret.value) = Len(args.series) - 1
              /\ \A i \in 1..Len(ret.value) :
                    ret.value[i].value = args.series[i + 1].value

C8_Witness ==
    /\ Reconstructed
    /\ Len(args.series) = 3
    /\ AllPositive(args.series)
    /\ args.series[1].value # args.series[2].value
    /\ args.series[2].value # args.series[3].value
    /\ ret.value[2].value = args.series[3].value

\* C9: a period whose divisor price is zero or negative yields NaN (the function
\* has no error exit), not an ordinary number.
C9_FailFastOnNonPositive ==
    ret.called =>
        \A k \in 1..Len(ret.rets) :
            args.series[k].value.n <= 0 => IsNaN(ret.rets[k])

-----------------------------------------------------------------------------
(* forecastSeries on its own *)

\* how far the series lengths tried lie from the 60-point threshold
Margin == 1

ForecastValues == {Z(1), Z(2)}

\* a series of value v with value w at index p
SpikeSeries(len, v, w, p) ==
    [i \in 1..len |-> Point(SetMonth(FixedDate, GetMonth(FixedDate) - len + i),
                            IF i = p THEN w ELSE v)]

InitForecast ==
    /\ PageInit
    /\ now = FixedDate
    /\ \E len \in (60 - Margin)..(60 + Margin), v \in ForecastValues, w \in ForecastValues :
          \E p \in 1..len : args = [series |-> SpikeSeries(len, v, w, p)]
    /\ ret = NotCalled

CallForecastSeries ==
    /\ ret = NotCalled
    /\ ret' = Result(forecastSeries(args.series, now))
    /\ UNCHANGED <<pageVars, now, args>>

NextForecast == CallForecastSeries

SpecForecast == InitForecast /\ [][NextForecast]_vars

\* C7: the forecast is empty for fewer than 60 points and has 60 points
\* otherwise; its window ends are the values at index len-60 and len-1: when
\* they are equal every projected value is that value, and when they differ the
\* projection moves away from the last value.
C7_Forecast ==
    ret.called =>
        LET len == Len(args.series)
        IN  IF len < 60 THEN ret.value = <<>>
            ELSE LET first == args.series[len - 59].value
                     last == args.series[len].value
                 IN  /\ Len(ret.value) = 60
                     /\ first = last => \A i \in 1..60 : ret.value[i].value = last
                     /\ first # last => ret.value[1].value # last

C7_Witness ==
    /\ ret.called
    /\ Len(args.series) = 60
    /\ args.series[1].value = args.series[60].value
    /\ args.series[2].value # args.series[60].value
    /\ Len(ret.value) = 60
    /\ ret.value[60].value = args.series[60].value

====
